---- MODULE Spec2Model ----
(***************************************************************************)
(* Model of LiveboxPlayTvDevice                                            *)
(* (homeassistant/components/liveboxplaytv/media_player.py): the entity's  *)
(* fields, async_update (the poll) and the command methods.  The device    *)
(* client is an environment: every query answers from a small set of       *)
(* values or raises requests.ConnectionError.                              *)
(***************************************************************************)
EXTENDS Integers, Sequences, FiniteSets, TLC

\* Python's None and a present value v.
None == <<>>
Some(v) == <<v>>
Val(o) == o[1]
\* Python truthiness of an optional string: None and '' are falsy.
Truthy(o) == o # None /\ o # Some("")

\* ---- bounds of the model ----
\* Largest value dt_util.utcnow() takes.
MaxClock == 1
\* The runs of async_update begun as coroutines in one behaviour.
MaxPolls == 2

\* ---- program constants ----
STATE_OFF == "off"
STATE_ON == "on"
STATE_PAUSED == "paused"
STATE_PLAYING == "playing"

\* ---- answers of the device client ----
MediaStates == {"PLAY", "PAUSE", "STOP"}
\* get_channels(): each entry has a string index and a name.
Catalogs ==
    { << [index |-> "10", name |-> "Arte"], [index |-> "2", name |-> "France 2"] >>,
      << [index |-> "2", name |-> "F2 HD"], [index |-> "1", name |-> "TF1"] >> }
\* The channels select_source is called with, and those the device is tuned to.
ChannelNames == {"TF1", "France 2"}
TunedChannels == {"TF1"}
\* A program as pyteleloisirs sees it: its name and what get_program_duration
\* and get_remaining_time compute from it at the time of the poll.
Programs ==
    { [name |-> "News", duration |-> 1800, remaining |-> 900],
      [name |-> "News", duration |-> 1800, remaining |-> 890],
      [name |-> "Film", duration |-> 3600, remaining |-> 900] }
ProgramImages == {None, Some(""), Some("prg.jpg")}
ChannelImages == {None, Some("logo.png")}
\* The query of async_update that raises requests.ConnectionError.
FailPoints == {"state", "channels", "channel", "program", "prg_img", "chan_img"}

VARIABLES
    self,   \* the fields of the LiveboxPlayTvDevice instance
    now,    \* the wall clock read by dt_util.utcnow()
    call,   \* the most recent method invocation: its name, its inputs, whether
            \* it raised and the session fields it changed
    device, \* the appliance: whether it is muted, and whether a mute call
            \* made so far never reached it
    tasks   \* the runs of async_update begun as coroutines, in the order they
            \* began: the answers each gets and the await it is suspended at

vars == <<self, now, call, device, tasks>>

\* int(channel['index'])
int(s) == CASE s = "1" -> 1 [] s = "2" -> 2 [] s = "10" -> 10

\* pyteleloisirs.get_program_duration / get_remaining_time / program.get('name')
get_program_duration(program) == Some(program.duration)
get_remaining_time(program) == Some(program.remaining)
get_name(program) == Some(program.name)


\* ---- __init__ ----
init ==
    [ muted |-> FALSE,
      current_source |-> None,
      state |-> None,
      channel_list |-> <<>>,
      current_channel |-> None,
      current_program |-> None,
      media_duration |-> None,
      media_remaining_time |-> None,
      media_image_url |-> None,
      media_last_updated |-> None ]

\* Mutant of refresh_state: the power flag is looked at first.
refresh_state_power_first(media_state, is_on) ==
    IF ~is_on THEN STATE_OFF
    ELSE IF media_state = "PLAY" THEN STATE_PLAYING
    ELSE IF media_state = "PAUSE" THEN STATE_PAUSED
    ELSE STATE_ON

\* ---- refresh_state: the value it returns ----
refresh_state(media_state, is_on) ==
    IF media_state = "PLAY" THEN STATE_PLAYING
    ELSE IF media_state = "PAUSE" THEN STATE_PAUSED
    ELSE IF is_on THEN STATE_ON ELSE STATE_OFF

\* ---- refresh_channel_list: the loop filling new_channel_list ----
RECURSIVE new_channel_list(_)
new_channel_list(channels) ==
    IF channels = <<>> THEN <<>>
    ELSE LET n == Len(channels)
             rest == new_channel_list(SubSeq(channels, 1, n - 1))
             k == int(channels[n].index)
         IN  [c \in (DOMAIN rest) \cup {k} |->
                 IF c = k THEN channels[n].name ELSE rest[c]]

\* Mutant of refresh_channel_list: the catalog is merged into the stored list.
refresh_channel_list_merges(s, channels) ==
    LET new == new_channel_list(channels)
    IN  [s EXCEPT !.channel_list =
            [c \in (DOMAIN new) \cup (DOMAIN s.channel_list) |->
                IF c \in DOMAIN new THEN new[c] ELSE s.channel_list[c]]]

refresh_channel_list(s, channels) ==
    [s EXCEPT !.channel_list = new_channel_list(channels)]

\* Mutant of update_state: a state of None is left as it is.
update_state_keeps_unknown(s, in) ==
    IF s.state = None THEN s
    ELSE [s EXCEPT !.state = Some(refresh_state(in.media_state, in.is_on))]

\* ---- async_update, line 83 ----
update_state(s, in) ==
    [s EXCEPT !.state = Some(refresh_state(in.media_state, in.is_on))]

\* ---- async_update, line 89 ----
update_channel(s, channel) == [s EXCEPT !.current_channel = channel]

\* Mutant of update_program: the remaining time is refreshed outside the
\* branch of the name change.
update_program_independent(s, program, utcnow) ==
    IF program = None THEN s
    ELSE LET rtime == get_remaining_time(Val(program))
             s1 == IF s.current_program # get_name(Val(program))
                   THEN [s EXCEPT !.current_program = get_name(Val(program)),
                                  !.media_duration =
                                      get_program_duration(Val(program))]
                   ELSE s
         IN  IF rtime # s1.media_remaining_time
             THEN [s1 EXCEPT !.media_remaining_time = rtime,
                             !.media_last_updated = Some(utcnow)]
             ELSE s1

\* Mutant of update_program: the timestamp is set on every name change.
update_program_always_stamps(s, program, utcnow) ==
    IF program # None /\ s.current_program # get_name(Val(program))
    THEN [s EXCEPT !.current_program = get_name(Val(program)),
                   !.media_duration = get_program_duration(Val(program)),
                   !.media_remaining_time = get_remaining_time(Val(program)),
                   !.media_last_updated = Some(utcnow)]
    ELSE s

\* Mutant of update_program: the duration is not recomputed with the name.
update_program_stale_duration(s, program, utcnow) ==
    IF program # None /\ s.current_program # get_name(Val(program))
    THEN LET rtime == get_remaining_time(Val(program))
             s1 == [s EXCEPT !.current_program = get_name(Val(program))]
         IN  IF rtime # s1.media_remaining_time
             THEN [s1 EXCEPT !.media_remaining_time = rtime,
                             !.media_last_updated = Some(utcnow)]
             ELSE s1
    ELSE s

\* ---- async_update, lines 92-100 ----
update_program(s, program, utcnow) ==
    IF program # None /\ s.current_program # get_name(Val(program))
    THEN LET rtime == get_remaining_time(Val(program))
             s1 == [s EXCEPT !.current_program = get_name(Val(program)),
                             !.media_duration = get_program_duration(Val(program))]
         IN  IF rtime # s1.media_remaining_time
             THEN [s1 EXCEPT !.media_remaining_time = rtime,
                             !.media_last_updated = Some(utcnow)]
             ELSE s1
    ELSE s

\* Mutant of update_image: the thumbnail is tested against None only.
update_image_not_none(s, prg_img_url, chan_img_url) ==
    IF prg_img_url # None
    THEN [s EXCEPT !.media_image_url = prg_img_url]
    ELSE [s EXCEPT !.media_image_url = chan_img_url]

\* ---- async_update, lines 103-111 ----
update_image(s, prg_img_url, chan_img_url) ==
    IF Truthy(prg_img_url)
    THEN [s EXCEPT !.media_image_url = prg_img_url]
    ELSE [s EXCEPT !.media_image_url = chan_img_url]

\* Mutant of on_connection_error: the handler also drops the artwork.
on_connection_error_drops_artwork(s) ==
    [s EXCEPT !.state = None, !.media_image_url = None]

\* Mutant of on_connection_error: the handler also resets the mute flag.
on_connection_error_unmutes(s) == [s EXCEPT !.state = None, !.muted = FALSE]

\* Mutant of on_connection_error: the handler also drops the timestamp.
on_connection_error_drops_stamp(s) ==
    [s EXCEPT !.state = None, !.media_last_updated = None]

\* Mutant of on_connection_error: the handler leaves the state as it is.
on_connection_error_keeps_state(s) == s

\* ---- async_update, lines 112-113: except requests.ConnectionError ----
on_connection_error(s) == [s EXCEPT !.state = None]

\* The query at which a poll with answers `in` raises, "none" if it raises at
\* no query it reaches.
Raises(in) ==
    IF in.error = "state" THEN "state"
    ELSE IF in.error = "channels" THEN "channels"
    ELSE IF in.error = "channel" THEN "channel"
    ELSE IF in.channel = None THEN "none"
    ELSE IF in.error = "program" THEN "program"
    ELSE IF in.error = "prg_img" THEN "prg_img"
    ELSE IF in.error = "chan_img" /\ ~Truthy(in.prg_img_url) THEN "chan_img"
    ELSE "none"

\* ---- async_update, lines 89-111: the body of `if channel is not None`, ----
\* ---- to its last line or to the query that raises                      ----
refresh_session(s, in, utcnow) ==
    LET s3 == update_channel(s, in.channel)
        s4 == update_program(s3, in.program, utcnow)
        s5 == update_image(s4, in.prg_img_url, in.chan_img_url)
        r  == Raises(in)
    IN  IF r = "program" THEN s3
        ELSE IF r \in {"prg_img", "chan_img"} THEN s4
        ELSE s5

\* Mutant of on_channel: the session is refreshed whatever the tuned channel.
on_channel_always(s, in, utcnow) == refresh_session(s, in, utcnow)

\* ---- async_update, line 88: if channel is not None ----
on_channel(s, in, utcnow) ==
    IF in.channel # None THEN refresh_session(s, in, utcnow) ELSE s

\* ---- async_update, lines 83-111: the fields when the body of the try ----
\* ---- statement ends, at its last line or at the query that raises     ----
try_body(s, in, utcnow) ==
    LET s1 == update_state(s, in)
        s2 == refresh_channel_list(s1, in.channels)
        r  == Raises(in)
    IN  IF r = "state" THEN s
        ELSE IF r = "channels" THEN s1
        ELSE IF r = "channel" THEN s2
        ELSE on_channel(s2, in, utcnow)

\* Mutant of guarded: the try statement covers the state query only.
guarded_state_only(r) == r = "state"

\* ---- async_update, lines 82 and 112: the queries inside the try statement ----
guarded(r) == r \in FailPoints

\* ---- async_update: the fields when it returns or raises ----
async_update(s, in, utcnow) ==
    IF Raises(in) # "none" /\ guarded(Raises(in))
    THEN on_connection_error(try_body(s, in, utcnow))
    ELSE try_body(s, in, utcnow)

\* ---- async_update: whether the error reaches the caller ----
async_update_raises(in) == Raises(in) # "none" /\ ~guarded(Raises(in))

\* ---- async_update as a coroutine: the code between two awaits ----
\* Whether the run reaches `await async_get_current_program()` (line 90).
suspends(in) ==
    Raises(in) \notin {"state", "channels", "channel"} /\ in.channel # None

\* Lines 82-90, to the first await, or the whole run if it reaches no await.
before_program(s, in, utcnow) ==
    IF suspends(in)
    THEN update_channel(
             refresh_channel_list(update_state(s, in), in.channels), in.channel)
    ELSE async_update(s, in, utcnow)

\* Mutant of after_program: the state is derived again when the run resumes.
after_program_refreshes_state(s, in, utcnow) ==
    IF Raises(in) = "program"
    THEN IF guarded("program") THEN on_connection_error(s) ELSE s
    ELSE update_program(update_state(s, in), in.program, utcnow)

\* Lines 90-104, from the first await to the second, or to the except clause.
after_program(s, in, utcnow) ==
    IF Raises(in) = "program"
    THEN IF guarded("program") THEN on_connection_error(s) ELSE s
    ELSE update_program(s, in.program, utcnow)

\* Lines 104-113, from the second await to the end.
after_image(s, in) ==
    IF Raises(in) \in {"prg_img", "chan_img"}
    THEN IF guarded(Raises(in)) THEN on_connection_error(s) ELSE s
    ELSE update_image(s, in.prg_img_url, in.chan_img_url)

\* ---- source_list ----
RECURSIVE sorted(_)
sorted(keys) ==
    IF keys = {} THEN <<>>
    ELSE LET m == CHOOSE k \in keys : \A j \in keys : k <= j
         IN  <<m>> \o sorted(keys \ {m})

source_list(s) ==
    LET ks == sorted(DOMAIN s.channel_list)
    IN  [i \in 1..Len(ks) |-> s.channel_list[ks[i]]]

\* ---- source ----
source(s) == s.current_channel

\* ---- media_title ----
media_title(s) ==
    IF Truthy(s.current_channel)
    THEN IF Truthy(s.current_program)
         THEN Some(<<Val(s.current_channel), ": ", Val(s.current_program)>>)
         ELSE s.current_channel
    ELSE None

\* Mutant of media_pause: the state written is PLAYING.
media_pause_marks_playing(s) == [s EXCEPT !.state = Some(STATE_PLAYING)]

\* Mutant of media_play_pause: the state is toggled locally.
media_play_pause_toggles(s) ==
    [s EXCEPT !.state = IF s.state = Some(STATE_PLAYING)
                        THEN Some(STATE_PAUSED) ELSE Some(STATE_PLAYING)]

\* ---- the command methods: the local write each makes before its device call ----
turn_off(s) == [s EXCEPT !.state = Some(STATE_OFF)]
turn_on(s) == [s EXCEPT !.state = Some(STATE_ON)]
media_play(s) == [s EXCEPT !.state = Some(STATE_PLAYING)]
media_pause(s) == [s EXCEPT !.state = Some(STATE_PAUSED)]
mute_volume(s, mute) == [s EXCEPT !.muted = mute]
select_source(s, src) == [s EXCEPT !.current_source = Some(src)]
volume_up(s) == s
volume_down(s) == s
media_play_pause(s) == s
media_next_track(s) == s
media_previous_track(s) == s

\* ---- the command methods: the method of self._client each calls, once ----
client_call(op) ==
    CASE op = "turn_off" -> "turn_off"
      [] op = "turn_on" -> "turn_on"
      [] op = "volume_up" -> "volume_up"
      [] op = "volume_down" -> "volume_down"
      [] op = "mute_volume" -> "mute"
      [] op = "media_play_pause" -> "play_pause"
      [] op = "select_source" -> "set_channel"
      [] op = "media_play" -> "play"
      [] op = "media_pause" -> "pause"
      [] op = "media_next_track" -> "channel_up"
      [] op = "media_previous_track" -> "channel_down"

\* ---- self._client.mute(): the appliance toggles its mute ----
client_mute(d) == [d EXCEPT !.muted = ~d.muted]

\* Mutant of command: the device is called first, the field written after.
command_call_first(s, after, ok) == IF ok THEN after ELSE s

\* ---- the command methods: the fields when the method returns (ok) or its ----
\* ---- device call raises; the local write precedes the call              ----
command(s, after, ok) == after

\* ---- the answers one poll can get ----
\* A query the poll does not reach has no answer; it is given a fixed one.
Reached(in) ==
    LET r == Raises(in)
    IN  /\ in.error = r
        /\ (r = "state" => in.media_state = "STOP" /\ in.is_on)
        /\ (r \in {"state", "channels"} =>
                in.channels = CHOOSE c \in Catalogs : TRUE)
        /\ (r \in {"state", "channels", "channel"} => in.channel = None)
        /\ (in.channel = None \/ r = "program" => in.program = None)
        /\ (in.channel = None \/ r \in {"program", "prg_img", "chan_img"} =>
                in.prg_img_url = None)
        /\ (in.channel = None \/ r \in {"program", "prg_img", "chan_img"}
                \/ Truthy(in.prg_img_url) => in.chan_img_url = None)

PollInputs ==
    { in \in [ media_state : MediaStates, is_on : BOOLEAN,
               channels : Catalogs,
               channel : {None} \cup {Some(c) : c \in TunedChannels},
               program : {None} \cup {Some(p) : p \in Programs},
               prg_img_url : ProgramImages,
               chan_img_url : ChannelImages,
               error : FailPoints \cup {"none"} ] : Reached(in) }

\* The answers polls get in the specification of the commands: one catalog,
\* the device playing or switched off, the program fetch the one query after
\* the first that fails.
SomePollInputs ==
    { in \in PollInputs :
        /\ in.channels = CHOOSE c \in Catalogs : TRUE
        /\ \/ in.error = "state"
           \/ <<in.media_state, in.is_on>> \in {<<"PLAY", TRUE>>, <<"STOP", FALSE>>}
        /\ in.prg_img_url # Some("")
        /\ in.error \in {"none", "state", "program"} }

\* The answers polls get where runs of async_update interleave or repeat
\* forever: the device playing a program of one channel or switched off on
\* another; the program fetch or the thumbnail fetch may fail.
FewPollInputs ==
    { [ media_state |-> "PLAY", is_on |-> TRUE,
        channels |-> << [index |-> "2", name |-> "F2 HD"],
                        [index |-> "1", name |-> "TF1"] >>,
        channel |-> Some("TF1"),
        program |-> Some([name |-> "News", duration |-> 1800, remaining |-> 900]),
        prg_img_url |-> Some("prg.jpg"), chan_img_url |-> None,
        error |-> e ] : e \in {"none", "program", "prg_img"} }
    \cup
    { [ media_state |-> "STOP", is_on |-> FALSE,
        channels |-> << [index |-> "10", name |-> "Arte"],
                        [index |-> "2", name |-> "France 2"] >>,
        channel |-> Some("France 2"),
        program |-> Some([name |-> "Film", duration |-> 3600, remaining |-> 900]),
        prg_img_url |-> None, chan_img_url |-> Some("logo.png"),
        error |-> "none" ] }

\* The fields of the program session, and those an invocation changed.
SessionFields ==
    {"current_program", "media_duration", "media_remaining_time",
     "media_last_updated"}
Changed(s, t) == {f \in SessionFields : s[f] # t[f]}

\* ---- the state machine ----
Init ==
    /\ self = init
    /\ now = 0
    /\ call = [op |-> "__init__", raised |-> FALSE, changed |-> {}]
    /\ device = [muted |-> FALSE, missed |-> FALSE]
    /\ tasks = <<>>

\* The wall clock advances between invocations.
Tick ==
    /\ now < MaxClock
    /\ now' = now + 1
    /\ UNCHANGED <<self, call, device, tasks>>

\* The scheduler runs async_update to completion with the answers `in`.
Update(in) ==
    /\ self' = async_update(self, in, now)
    /\ call' = [op |-> "async_update", in |-> in,
                raised |-> async_update_raises(in),
                changed |-> Changed(self, self')]
    /\ UNCHANGED <<now, device, tasks>>

Poll == \E in \in SomePollInputs : Update(in)

PollAny == \E in \in PollInputs : Update(in)

\* A command without argument: its local write, then its device call, which
\* raises or returns.
Command(op, after) ==
    \E ok \in BOOLEAN :
        /\ self' = command(self, after, ok)
        /\ call' = [op |-> op, raised |-> ~ok, changed |-> Changed(self, self'),
                    client |-> <<client_call(op)>>]
        /\ UNCHANGED <<now, device, tasks>>

TurnOff == Command("turn_off", turn_off(self))
TurnOn == Command("turn_on", turn_on(self))
MediaPlay == Command("media_play", media_play(self))
MediaPause == Command("media_pause", media_pause(self))
VolumeUp == Command("volume_up", volume_up(self))
VolumeDown == Command("volume_down", volume_down(self))
MediaPlayPause == Command("media_play_pause", media_play_pause(self))
MediaNextTrack == Command("media_next_track", media_next_track(self))
MediaPreviousTrack == Command("media_previous_track", media_previous_track(self))

MuteVolume ==
    \E ok \in BOOLEAN, mute \in BOOLEAN :
        /\ self' = command(self, mute_volume(self, mute), ok)
        /\ call' = [op |-> "mute_volume", mute |-> mute, raised |-> ~ok,
                    changed |-> Changed(self, self'),
                    client |-> <<client_call("mute_volume")>>]
        /\ device' = IF ok THEN client_mute(device)
                            ELSE [device EXCEPT !.missed = TRUE]
        /\ UNCHANGED <<now, tasks>>

SelectSource ==
    \E ok \in BOOLEAN, src \in ChannelNames :
        /\ self' = command(self, select_source(self, src), ok)
        /\ call' = [op |-> "select_source", source |-> src, raised |-> ~ok,
                    changed |-> Changed(self, self'),
                    client |-> <<client_call("select_source")>>]
        /\ UNCHANGED <<now, device, tasks>>

\* Polls and commands of one entity, run one at a time.
Next ==
    \/ Poll
    \/ Tick
    \/ TurnOff
    \/ TurnOn
    \/ MediaPlay
    \/ MediaPause
    \/ VolumeUp
    \/ VolumeDown
    \/ MediaPlayPause
    \/ MediaNextTrack
    \/ MediaPreviousTrack
    \/ MuteVolume
    \/ SelectSource

Spec == Init /\ [][Next]_vars

\* The scheduler alone: polls with every answer the device can give.
NextPoll ==
    \/ PollAny
    \/ Tick

SpecPoll == Init /\ [][NextPoll]_vars

\* ---- async_update run as a coroutine: other runs and commands may take ----
\* ---- their steps while it is suspended at an await                     ----
AsyncUpdateBegin ==
    \E in \in FewPollInputs :
        /\ Len(tasks) < MaxPolls
        /\ self' = before_program(self, in, now)
        /\ tasks' = Append(tasks, [in |-> in,
                                   pc |-> IF suspends(in) THEN "program" ELSE "done"])
        /\ call' = [op |-> "async_update", at |-> "begin", in |-> in,
                    raised |-> ~suspends(in) /\ async_update_raises(in),
                    changed |-> Changed(self, self')]
        /\ UNCHANGED <<now, device>>

AsyncUpdateProgram ==
    \E i \in DOMAIN tasks :
        /\ tasks[i].pc = "program"
        /\ self' = after_program(self, tasks[i].in, now)
        /\ tasks' = [tasks EXCEPT ![i].pc =
                        IF Raises(tasks[i].in) = "program" THEN "done" ELSE "image"]
        /\ call' = [op |-> "async_update", at |-> "program", in |-> tasks[i].in,
                    raised |-> Raises(tasks[i].in) = "program"
                               /\ ~guarded("program"),
                    changed |-> Changed(self, self')]
        /\ UNCHANGED <<now, device>>

AsyncUpdateImage ==
    \E i \in DOMAIN tasks :
        /\ tasks[i].pc = "image"
        /\ self' = after_image(self, tasks[i].in)
        /\ tasks' = [tasks EXCEPT ![i].pc = "done"]
        /\ call' = [op |-> "async_update", at |-> "image", in |-> tasks[i].in,
                    raised |-> Raises(tasks[i].in) \in {"prg_img", "chan_img"}
                               /\ ~guarded(Raises(tasks[i].in)),
                    changed |-> Changed(self, self')]
        /\ UNCHANGED <<now, device>>

\* Runs of async_update that overlap, and nothing else.
NextOverlap ==
    \/ AsyncUpdateBegin
    \/ AsyncUpdateProgram
    \/ AsyncUpdateImage

SpecOverlap == Init /\ [][NextOverlap]_vars

\* Runs of async_update and the commands that write the state.
NextAsync ==
    \/ AsyncUpdateBegin
    \/ AsyncUpdateProgram
    \/ AsyncUpdateImage
    \/ TurnOff
    \/ TurnOn
    \/ MediaPlay
    \/ MediaPause

SpecAsync == Init /\ [][NextAsync]_vars

\* ---- the scheduler polls again and again; the appliance answers ----
\* A poll; the record of the invocation also holds the state it found and the
\* invocation before it.
Repoll ==
    \E in \in FewPollInputs :
        /\ self' = async_update(self, in, now)
        /\ call' = [op |-> "async_update", in |-> in,
                    raised |-> async_update_raises(in),
                    changed |-> Changed(self, self'),
                    was |-> <<self.state, call.op>>]
        /\ UNCHANGED <<now, device, tasks>>

\* A poll of an appliance that can be reached: every query is answered.
RepollReached ==
    \E in \in FewPollInputs :
        /\ in.error = "none"
        /\ self' = async_update(self, in, now)
        /\ call' = [op |-> "async_update", in |-> in,
                    raised |-> async_update_raises(in),
                    changed |-> Changed(self, self'),
                    was |-> <<self.state, call.op>>]
        /\ UNCHANGED <<now, device, tasks>>

NextLive ==
    \/ Repoll
    \/ TurnOff
    \/ TurnOn
    \/ MediaPlay
    \/ MediaPause

SpecLive == Init /\ [][NextLive]_vars /\ WF_vars(RepollReached)

\* ==== the claims ====

\* A step that is one run of async_update (Tick changes the clock only).
PollStep == call'.op = "async_update" /\ now' = now
\* The last invocation was a poll / a poll in which no query raised.
Polled == call.op = "async_update"
PolledOk == Polled /\ call.in.error = "none"

\* The fields other than the state and the mute flag.
OtherFields ==
    {"channel_list", "current_channel", "current_program", "media_duration",
     "media_remaining_time", "media_image_url", "media_last_updated"}
Kept(fields) == \A f \in fields : self'[f] = self[f]

\* C1: a poll whose power/playback state query raises a connectivity error
\* ends with the state UNKNOWN and with channel list, current channel, program
\* name, duration, remaining time, artwork URL, timestamp and mute flag equal
\* to their values before the poll.
C1_StateQueryFailure ==
    [][PollStep /\ call'.in.error = "state"
          => /\ self'.state = None
             /\ Kept(OtherFields \cup {"muted"})]_vars

\* C1 witness: the state query failed on an entity that is muted, tuned and
\* holds a program session, and the state is UNKNOWN.
C1_Witness ==
    /\ Polled
    /\ call.in.error = "state"
    /\ self.state = None
    /\ self.muted
    /\ self.current_channel # None
    /\ self.current_program # None
    /\ self.media_image_url # None

\* C2 as stated: a poll that ends with the state UNKNOWN, whichever query
\* failed, leaves every other field at its value before the poll.
C2_OnlyStateDegrades ==
    [][PollStep /\ self'.state = None => Kept(OtherFields)]_vars

\* C2 as amended: a poll that ends with the state UNKNOWN changes no field
\* that async_update assigns after the query that failed.  A failed state
\* query or catalog fetch leaves all other fields unchanged; after a failed
\* read of the tuned channel only the channel list may differ; after a failed
\* program fetch only the channel list and the current channel may differ;
\* after a failed artwork fetch the artwork URL is unchanged.
C2_FailureKeepsLaterFields ==
    [][PollStep /\ self'.state = None
          => /\ call'.in.error \in FailPoints
             /\ call'.in.error \in {"state", "channels"} => Kept(OtherFields)
             /\ call'.in.error = "channel" =>
                    Kept(OtherFields \ {"channel_list"})
             /\ call'.in.error = "program" =>
                    Kept(OtherFields \ {"channel_list", "current_channel"})
             /\ call'.in.error \in {"prg_img", "chan_img"} =>
                    Kept({"media_image_url"})]_vars

\* C2 witness: the program-image fetch failed in a poll that had already
\* replaced the program name; the state is UNKNOWN.
C2_Witness ==
    /\ Polled
    /\ call.in.error = "prg_img"
    /\ self.state = None
    /\ "current_program" \in call.changed
    /\ self.current_program = Some(Val(call.in.program).name)

\* C3 as stated: a connectivity error raised by a query after the state query
\* reaches the caller of the poll, and the state derived from the device's
\* report stays in place.
C3_LaterErrorPropagates ==
    Polled /\ call.in.error \in FailPoints \ {"state"}
        => /\ call.raised
           /\ self.state # None

\* C3 as amended: a connectivity error raised by a query after the state query
\* is caught by async_update as well: the poll returns normally and the state
\* derived in step 1 is replaced by UNKNOWN.
C3_LaterErrorCaught ==
    Polled /\ call.in.error \in FailPoints \ {"state"}
        => /\ ~call.raised
           /\ self.state = None

\* C3 witness: the program fetch failed although the device reported PLAY.
C3_Witness ==
    /\ Polled
    /\ call.in.error = "program"
    /\ call.in.media_state = "PLAY"
    /\ ~call.raised
    /\ self.state = None

\* A poll in which no query raised, with a tuned channel / and a program.
TunedStep == PollStep /\ call'.in.error = "none" /\ call'.in.channel # None
ProgramStep == TunedStep /\ call'.in.program # None
Tuned == PolledOk /\ call.in.channel # None
\* The program the poll of this step fetched.
Fetched == Val(call'.in.program)

\* C4 as stated: in a poll with a tuned channel and a fetched program, a
\* fetched remaining time that differs from the stored one is stored and the
\* timestamp is set to the clock, also when the fetched program name equals
\* the stored name.
C4_RemainingRefreshIndependent ==
    [][ProgramStep /\ Some(Fetched.remaining) # self.media_remaining_time
          => /\ self'.media_remaining_time = Some(Fetched.remaining)
             /\ self'.media_last_updated = Some(now')]_vars

\* C4 as amended: the remaining time is refreshed only together with a change
\* of the program name.  In a poll with a tuned channel and a fetched
\* (non-empty) program whose name differs from the stored name, a fetched
\* remaining time that differs from the stored one is stored and the timestamp
\* is set to the clock; when the fetched name equals the stored name, the
\* stored remaining time and the timestamp keep their values.
C4_RemainingRefreshOnNameChange ==
    [][ProgramStep
          => /\ /\ Some(Fetched.name) # self.current_program
                /\ Some(Fetched.remaining) # self.media_remaining_time
                => /\ self'.media_remaining_time = Some(Fetched.remaining)
                   /\ self'.media_last_updated = Some(now')
             /\ Some(Fetched.name) = self.current_program
                => Kept({"media_remaining_time", "media_last_updated"})]_vars

\* C4 witness: a poll fetched the stored program with another remaining time,
\* and the stored remaining time is not the fetched one.
C4_Witness ==
    /\ Tuned
    /\ call.in.program # None
    /\ self.current_program = Some(Val(call.in.program).name)
    /\ self.media_remaining_time # Some(Val(call.in.program).remaining)
    /\ call.changed = {}

\* C5: a poll changes the timestamp only if it changes the stored remaining
\* time; when the fetched remaining time equals the stored one the timestamp
\* keeps its value, also in a poll that replaced the program name and
\* recomputed the duration.
C5_TimestampOnlyWithRemaining ==
    [][PollStep
          => /\ self'.media_last_updated # self.media_last_updated
                => self'.media_remaining_time # self.media_remaining_time
             /\ /\ call'.in.error = "none"
                /\ call'.in.channel # None
                /\ call'.in.program # None
                /\ Some(Fetched.remaining) = self.media_remaining_time
                => self'.media_last_updated = self.media_last_updated]_vars

\* C5 witness: a poll replaced the program name and the duration, left the
\* remaining time and the timestamp alone, and the timestamp is older than
\* the clock.
C5_Witness ==
    /\ Tuned
    /\ call.changed = {"current_program", "media_duration"}
    /\ self.media_remaining_time = Some(Val(call.in.program).remaining)
    /\ self.media_last_updated # None
    /\ self.media_last_updated # Some(now)

\* C6 as stated: after a poll with a tuned channel in which no query raised,
\* the stored program name is the fetched program's name, absent when the
\* fetch returned null; and when the name was replaced the stored duration is
\* the fetched program's.
C6_NameFollowsFetch ==
    [][TunedStep
          => /\ self'.current_program =
                    IF call'.in.program = None THEN None ELSE Some(Fetched.name)
             /\ /\ self'.current_program # self.current_program
                /\ call'.in.program # None
                => self'.media_duration = Some(Fetched.duration)]_vars

\* C6 as amended: after a poll with a tuned channel in which no query raised,
\* the stored program name is the fetched program's name if the fetch returned
\* a (non-empty) program; if it returned none, the stored name and duration
\* keep their values (there is no transition to no program); and whenever the
\* name was replaced the stored duration is the fetched program's.
C6_NameFollowsFetchedProgram ==
    [][TunedStep
          => /\ call'.in.program # None
                => self'.current_program = Some(Fetched.name)
             /\ call'.in.program = None
                => Kept({"current_program", "media_duration"})
             /\ self'.current_program # self.current_program
                => /\ call'.in.program # None
                   /\ self'.media_duration = Some(Fetched.duration)]_vars

\* C6 witness: the fetch returned no program while a name is stored, and the
\* name is still stored after the poll.
C6_Witness ==
    /\ Tuned
    /\ call.in.program = None
    /\ self.current_program # None
    /\ self.media_duration # None

\* The state the device's report stands for.
Reported(media_state, is_on) ==
    CASE media_state = "PLAY" -> Some("playing")
      [] media_state = "PAUSE" -> Some("paused")
      [] media_state \notin {"PLAY", "PAUSE"} /\ is_on -> Some("on")
      [] media_state \notin {"PLAY", "PAUSE"} /\ ~is_on -> Some("off")

\* C7 as stated: after a poll whose power/playback query succeeds the state is
\* the one the device's report stands for: PLAYING for PLAY, PAUSED for PAUSE,
\* else ON or OFF by the power flag.
C7_StateFromReport ==
    Polled /\ call.in.error # "state"
        => self.state = Reported(call.in.media_state, call.in.is_on)

\* C7 as amended: after a poll in which every query succeeds the state is the
\* one the device's report of that poll stands for (PLAYING for PLAY whatever
\* the power flag, PAUSED for PAUSE, else ON or OFF by the power flag),
\* whatever the state was before.
C7_StateFromReportWhenAllSucceed ==
    PolledOk => self.state = Reported(call.in.media_state, call.in.is_on)

\* C7 witness: the device reported PLAY with the power flag off, no query
\* failed, and the state is PLAYING.
C7_Witness ==
    /\ PolledOk
    /\ call.in.media_state = "PLAY"
    /\ ~call.in.is_on
    /\ self.state = Some(STATE_PLAYING)

\* C8: a poll in which the tuned channel is null and no query fails leaves
\* current channel, program name, duration, remaining time, artwork URL and
\* timestamp at their values before the poll.
C8_NullChannelKeepsSession ==
    [][PollStep /\ call'.in.error = "none" /\ call'.in.channel = None
          => Kept(OtherFields \ {"channel_list"})]_vars

\* C8 witness: the tuned channel was null in a poll of an entity that holds a
\* channel, a program session and an artwork URL.
C8_Witness ==
    /\ PolledOk
    /\ call.in.channel = None
    /\ self.current_channel # None
    /\ self.current_program # None
    /\ self.media_image_url # None
    /\ self.media_last_updated # None

\* C9: after a poll with a tuned channel in which no query raised, the stored
\* artwork URL is the program thumbnail if the device returned a non-empty
\* one, else the channel logo (absent if that is absent); whether or not the
\* poll changed the program session.
C9_ArtworkOverwritten ==
    Tuned => self.media_image_url =
                 IF call.in.prg_img_url \in {None, Some("")}
                 THEN call.in.chan_img_url
                 ELSE call.in.prg_img_url

\* C9 witness: a poll that changed nothing of the program session replaced a
\* stored thumbnail by the channel logo, the device returning no thumbnail.
C9_Witness ==
    /\ Tuned
    /\ call.changed = {}
    /\ self.current_program # None
    /\ call.in.prg_img_url = Some("")
    /\ self.media_image_url = Some("logo.png")

\* C10: after select_source(channelId) returns, and before any poll runs, the
\* exposed source is channelId.
C10_SelectSourceSetsSource ==
    call.op = "select_source" /\ ~call.raised
        => source(self) = Some(call.source)

\* A step that is one run of the command `op`.
CommandStep(op) == call'.op = op /\ now' = now
\* Every field of the entity.
AllFields == OtherFields \cup {"state", "muted", "current_source"}

\* C11: when turn_off, turn_on, media_play or media_pause returns, the state
\* is OFF, ON, PLAYING or PAUSED, whatever it was; the command made exactly
\* one device call, the matching one, and changed no field but the state.
C11_StateCommands ==
    [][\A c \in { <<"turn_off", "off", "turn_off">>,
                  <<"turn_on", "on", "turn_on">>,
                  <<"media_play", "playing", "play">>,
                  <<"media_pause", "paused", "pause">> } :
          CommandStep(c[1]) /\ ~call'.raised
              => /\ self'.state = Some(c[2])
                 /\ call'.client = <<c[3]>>
                 /\ Kept(AllFields \ {"state"})]_vars

\* C11 witness: media_pause returned on a muted entity that holds a program
\* session; the state is PAUSED, a value no poll of this specification derives.
C11_Witness ==
    /\ call.op = "media_pause"
    /\ ~call.raised
    /\ self.state = Some(STATE_PAUSED)
    /\ self.current_program # None
    /\ self.muted

\* C12: volume_up, volume_down, media_play_pause, media_next_track and
\* media_previous_track change no field of the entity; each makes one device
\* call, the matching one.
C12_PassThroughCommands ==
    [][\A c \in { <<"volume_up", "volume_up">>,
                  <<"volume_down", "volume_down">>,
                  <<"media_play_pause", "play_pause">>,
                  <<"media_next_track", "channel_up">>,
                  <<"media_previous_track", "channel_down">> } :
          CommandStep(c[1])
              => /\ call'.client = <<c[2]>>
                 /\ Kept(AllFields)]_vars

\* C12 witness: media_play_pause returned while the state is PLAYING, and the
\* state is still PLAYING.
C12_Witness ==
    /\ call.op = "media_play_pause"
    /\ ~call.raised
    /\ self.state = Some(STATE_PLAYING)
    /\ self.current_channel # None

\* C13: the mute flag is false after construction, mute_volume(flag) sets it
\* to flag, and no poll and no other command changes it.
C13_MuteFlagOwnedByMute ==
    /\ call.op = "__init__" => ~self.muted
    /\ [][/\ CommandStep("mute_volume") /\ ~call'.raised
                => self'.muted = call'.mute
          /\ self'.muted # self.muted => call'.op = "mute_volume"]_vars

\* C13 witness: a poll whose state query failed ran on a muted entity, which
\* is still muted.
C13_Witness ==
    /\ Polled
    /\ call.in.error = "state"
    /\ self.muted
    /\ self.state = None

\* The number a catalog index stands for.
IndexValue == ("1" :> 1) @@ ("2" :> 2) @@ ("10" :> 10)

\* C14: after a poll that got past the catalog fetch, the channel list has
\* one entry, number of the index -> name, for each entry of the catalog this
\* poll fetched and nothing else, and source_list gives those names in
\* ascending order of the index.
C14_ChannelListIsThisCatalog ==
    Polled /\ call.in.error \notin {"state", "channels"}
        => LET cat == call.in.channels
               sl == source_list(self)
           IN  /\ DOMAIN self.channel_list =
                      {IndexValue[cat[i].index] : i \in DOMAIN cat}
               /\ \A i \in DOMAIN cat :
                      self.channel_list[IndexValue[cat[i].index]] = cat[i].name
               /\ Len(sl) = Len(cat)
               /\ \A i \in 1..Len(sl) : \A j \in 1..Len(sl) :
                      i < j => \E a \in DOMAIN cat : \E b \in DOMAIN cat :
                                  /\ sl[i] = cat[a].name
                                  /\ sl[j] = cat[b].name
                                  /\ IndexValue[cat[a].index] < IndexValue[cat[b].index]

\* C14 witness: a poll fetched the catalog that lists index "10" before index
\* "2", on an entity that had polled before; source_list gives 2 before 10.
C14_Witness ==
    /\ Polled
    /\ call.in.error = "program"
    /\ call.in.channels = << [index |-> "10", name |-> "Arte"],
                             [index |-> "2", name |-> "France 2"] >>
    /\ source_list(self) = <<"France 2", "Arte">>
    /\ self.current_program # None

\* C17: the timestamp, once set, is never absent again and never decreases;
\* only a poll changes it, no command does.
C17_TimestampMonotonic ==
    [][/\ self.media_last_updated # None
            => /\ self'.media_last_updated # None
               /\ Val(self'.media_last_updated) >= Val(self.media_last_updated)
       /\ self'.media_last_updated # self.media_last_updated
            => call'.op = "async_update"]_vars

\* C17 witness: a poll failed, after the clock had advanced, on an entity whose
\* timestamp was set before; the timestamp is the earlier one.
C17_Witness ==
    /\ Polled
    /\ call.in.error = "state"
    /\ now = 1
    /\ self.media_last_updated = Some(0)

\* C19: when the device call of turn_off, turn_on, media_play, media_pause,
\* mute_volume or select_source raises, the error leaves the method and the
\* value the method wrote before the call stays; the call is made once.
C19_FailedCommandKeepsWrite ==
    call.op \in {"turn_off", "turn_on", "media_play", "media_pause",
                 "mute_volume", "select_source"} /\ call.raised
        => /\ Len(call.client) = 1
           /\ call.op = "turn_off" => self.state = Some("off")
           /\ call.op = "turn_on" => self.state = Some("on")
           /\ call.op = "media_play" => self.state = Some("playing")
           /\ call.op = "media_pause" => self.state = Some("paused")
           /\ call.op = "mute_volume" => self.muted = call.mute
           /\ call.op = "select_source" => self.current_source = Some(call.source)

\* C19 witness: the device call of media_pause raised on an entity that had
\* polled; the state is PAUSED.
C19_Witness ==
    /\ call.op = "media_pause"
    /\ call.raised
    /\ self.state = Some(STATE_PAUSED)
    /\ self.current_channel # None

\* C18 as stated: starting from an appliance that is not muted, while every
\* mute call made so far reached the appliance, the mute flag of the entity
\* equals the mute state of the appliance.
C18_MuteFlagFollowsDevice ==
    ~device.missed => self.muted = device.muted

\* C15: a state of UNKNOWN, or one written by a command, does not stick: a
\* poll in which every query succeeds leaves the state derived from its
\* report; and when the scheduler keeps polling an appliance that can be
\* reached, a state of UNKNOWN is eventually replaced.
C15_UnknownNotSticky ==
    /\ [][PollStep /\ call'.in.error = "none"
            => self'.state = Reported(call'.in.media_state, call'.in.is_on)]_vars
    /\ (self.state = None) ~> (self.state # None)

\* C15 witness: a poll failed and left UNKNOWN; the next invocation, a poll in
\* which every query succeeded, left PLAYING.
C15_Witness ==
    /\ PolledOk
    /\ call.was = <<None, "async_update">>
    /\ self.state = Some(STATE_PLAYING)

\* The fields C16 compares.
TrackerFields ==
    {"state", "current_channel", "current_program", "media_duration",
     "media_remaining_time", "media_image_url"}

\* C16 as stated: when two runs of async_update that interleave at their
\* awaits have both ended without an error, state, current channel, program
\* name, duration, remaining time and artwork are those of one of the two
\* serial executions of the same two runs with the same answers.
C16_OverlapIsSerial ==
    /\ Len(tasks) = 2
    /\ \A i \in DOMAIN tasks : tasks[i].pc = "done" /\ tasks[i].in.error = "none"
    => \E order \in {<<1, 2>>, <<2, 1>>} :
          LET serial == async_update(
                            async_update(init, tasks[order[1]].in, now),
                            tasks[order[2]].in, now)
          IN  \A f \in TrackerFields : self[f] = serial[f]

\* Whether the run of async_update recorded in c met its error on resuming.
FailedOnResume(c) ==
    \/ c.at = "program" /\ c.in.error = "program"
    \/ c.at = "image" /\ c.in.error = "prg_img"
    \/ c.at = "image" /\ c.in.error = "chan_img"
                      /\ c.in.prg_img_url \in {None, Some("")}

\* C20: a run of async_update writes the state before its first await and in
\* its error handler only: a step that resumes it leaves the state as it finds
\* it (so a state written by a command meanwhile stays) when the run goes on
\* without error, and leaves UNKNOWN when the awaited query failed.
C20_ResumeKeepsCommandState ==
    [][call'.op = "async_update" /\ call'.at \in {"program", "image"}
          => self'.state = IF FailedOnResume(call') THEN None ELSE self.state]_vars

\* C20 witness: the only run of async_update has ended without error and the
\* state is PAUSED, which no run derives: media_pause ran while it was
\* suspended.
C20_Witness ==
    /\ Len(tasks) = 1
    /\ call.op = "async_update"
    /\ call.at = "image"
    /\ call.in.error = "none"
    /\ self.state = Some(STATE_PAUSED)

====
